---- MODULE Spec2Model ----
(***************************************************************************)
(* A model of the rattler resolver (crates/rattler/src/solver/resolver.rs):*)
(* the candidate set algebra (PackageVariantSet), the derivation of a set  *)
(* from a match spec, the ordering policy (compare_variants and            *)
(* variants_order) and the dependency provider (choose_package_version,    *)
(* get_dependencies) driven by Index::solve.                               *)
(*                                                                         *)
(* Variant indices are 0-based as in the code; a Vec is a sequence, so the *)
(* variant with index i is variants[i + 1].                                *)
(***************************************************************************)
EXTENDS Integers, Sequences, FiniteSets, TLC

\* ------------------------------------------------------------------ bounds
\* Largest number of variants of one universe.
MaxVariants == 3
\* Versions are 1..MaxVersion (a total order, as Version's Ord).
MaxVersion == 2

\* Largest build number and largest timestamp of a record.
MaxBuild == 1
MaxTime == 1
\* Longest depends list of a record.
MaxDeps == 2

\* ------------------------------------------------------------- names
PkgA == "a"
PkgB == "b"
\* A name with the `__` prefix of virtual packages, and a name no repodata has.
PkgV == "__v"
PkgM == "m"
Root == "__ROOT__"
Names == {PkgA, PkgB, PkgV, PkgM, Root}
Versions == 1..MaxVersion

\* --------------------------------------------------------- records, specs
\* A PackageRecord, reduced to the fields the resolver reads. tracked is
\* `!track_features.is_empty()`.
Record(n, v, bn, tr, ts, deps, cons) ==
    [name |-> n, version |-> v, build_number |-> bn, tracked |-> tr,
     timestamp |-> ts, depends |-> deps, constrains |-> cons]

\* A record with nothing but a name and a version.
PlainRecord(n, v) == Record(n, v, 0, FALSE, 0, <<>>, <<>>)

\* A parsed MatchSpec: a package name and a closed version interval.
MatchSpec(n, lo, hi) == [name |-> n, lo |-> lo, hi |-> hi]

\* MatchSpec::from_str on a dependency string. A string is kept as the tuple
\* <<name, lo, hi>> of what it spells; every string of the model parses and
\* names a package.
MatchSpecFromStr(str) == MatchSpec(str[1], str[2], str[3])

\* MatchSpec::matches.
Matches(spec, record) ==
    /\ spec.name = record.name
    /\ spec.lo <= record.version
    /\ record.version <= spec.hi

\* struct PackageVariants: the name and the records; by_order and the parsed
\* dependencies are functions of these (OnceCell, written once).
PackageVariants(n, vs) == [name |-> n, variants |-> vs]

\* ------------------------------------------------------------------ BitVec
FromElem(n, b) == [i \in 1..n |-> b]
BitSet(bv, idx, b) == [bv EXCEPT ![idx + 1] = b]
BitGet(bv, idx) == bv[idx + 1]
BitNone(bv) == \A i \in 1..Len(bv) : ~bv[i]
BitAll(bv) == \A i \in 1..Len(bv) : bv[i]
BitNegate(bv) == [i \in 1..Len(bv) |-> ~bv[i]]
BitAnd(a, b) == [i \in 1..Len(a) |-> a[i] /\ b[i]]
BitOr(a, b) == [i \in 1..Len(a) |-> a[i] \/ b[i]]
CountOnes(bv) == Cardinality({i \in 1..Len(bv) : bv[i]})

\* ------------------------------------------------------- PackageVariantSet
\* enum PackageVariantSet { Empty, Full, Discrete(PackageVariantRange) }.
\* The Rc to the universe of a Discrete set is left out: equality ignores it
\* and every set is kept under the name of its universe.
Empty == [kind |-> "Empty", included |-> <<>>]
Full == [kind |-> "Full", included |-> <<>>]
Discrete(bv) == [kind |-> "Discrete", included |-> bv]

\* derive(PartialEq) on the enum, with PartialEq for PackageVariantRange.
SetEq(a, b) ==
    /\ a.kind = b.kind
    /\ (a.kind = "Discrete" => a.included = b.included)

\* PackageVariants::range_from_matchspec
RangeAllBeforeNone(u, spec) ==
    LET included == [i \in 1..Len(u.variants) |-> Matches(spec, u.variants[i])]
    IN  IF BitAll(included) THEN Full
        ELSE IF BitNone(included) THEN Empty
        ELSE Discrete(included)

IncludedBy(u, spec) == [i \in 1..Len(u.variants) |-> Matches(spec, u.variants[i])]

range_from_matchspec(u, spec) ==
    LET included == IncludedBy(u, spec)
    IN  IF BitNone(included) THEN Empty
        ELSE IF BitAll(included) THEN Full
        ELSE Discrete(included)

\* PackageVariants::available_variant_count_in_range
available_variant_count_in_range(u, range) ==
    CASE range.kind = "Empty" -> 0
      [] range.kind = "Full" -> Len(u.variants)
      [] OTHER -> CountOnes(range.included)

\* PackageVariantRange::singleton, through VersionSet::singleton
singleton(u, idx) == Discrete(BitSet(FromElem(Len(u.variants), FALSE), idx, TRUE))

\* VersionSet::complement
complement(s) ==
    CASE s.kind = "Empty" -> Full
      [] s.kind = "Full" -> Empty
      [] OTHER -> Discrete(BitNegate(s.included))

\* VersionSet::intersection
IntersectionNoCollapse(a, b) ==
    IF a.kind = "Empty" \/ b.kind = "Empty" THEN Empty
    ELSE IF a.kind = "Full" THEN b
    ELSE IF b.kind = "Full" THEN a
    ELSE Discrete(BitAnd(a.included, b.included))

intersection(a, b) ==
    IF a.kind = "Empty" \/ b.kind = "Empty" THEN Empty
    ELSE IF a.kind = "Full" THEN b
    ELSE IF b.kind = "Full" THEN a
    ELSE LET included == BitAnd(a.included, b.included)
         IN  IF BitNone(included) THEN Empty ELSE Discrete(included)

\* VersionSet::union
union(a, b) ==
    IF a.kind = "Empty" THEN b
    ELSE IF b.kind = "Empty" THEN a
    ELSE IF a.kind = "Full" \/ b.kind = "Full" THEN Full
    ELSE LET included == BitOr(a.included, b.included)
         IN  IF BitAll(included) THEN Full ELSE Discrete(included)

\* PackageVariantSet::contains_variant_index, VersionSet::contains
contains_variant_index(s, idx) ==
    CASE s.kind = "Empty" -> FALSE
      [] s.kind = "Full" -> TRUE
      [] OTHER -> BitGet(s.included, idx)

\* ------------------------------------------------------------------ Index
\* struct Index: package_variants_cache is a function from the cached names to
\* their universes, repo_datas a sequence of repodata, each a function from
\* every name to its (possibly empty) sequence of records. match_spec_cache
\* memoizes find_highest_version by spec and is read back unchanged, the
\* universe of a cached name never changing; it is not kept as state.
Index(cache, repo_datas) == [cache |-> cache, repo_datas |-> repo_datas]

RECURSIVE RepoRecords(_, _, _)
RepoRecords(repo_datas, name, i) ==
    IF i > Len(repo_datas) THEN <<>>
    ELSE repo_datas[i][name] \o RepoRecords(repo_datas, name, i + 1)

\* Index::package_variants
package_variants(ix, name) ==
    IF name \in DOMAIN ix.cache THEN ix.cache[name]
    ELSE PackageVariants(name, RepoRecords(ix.repo_datas, name, 1))

\* Index::dependencies
dependencies(u, idx) ==
    LET depends == u.variants[idx + 1].depends
    IN  [i \in 1..Len(depends) |-> MatchSpecFromStr(depends[i])]

\* ---------------------------------------------------------- ordering policy
\* Ord::cmp on integers and on bool (false < true).
CmpInt(x, y) == IF x < y THEN "Less" ELSE IF x > y THEN "Greater" ELSE "Equal"
CmpBool(x, y) == CmpInt(IF x THEN 1 ELSE 0, IF y THEN 1 ELSE 0)
MaxOf(x, y) == IF x >= y THEN x ELSE y

\* The fold of find_highest_version over the matching records: None is <<>>,
\* Some((version, flag)) is <<[version, tracked]>>.
RECURSIVE HighestFold(_, _, _, _)
HighestFold(spec, records, i, acc) ==
    IF i > Len(records) THEN acc
    ELSE LET record == records[i]
             next ==
                 IF ~Matches(spec, record) THEN acc
                 ELSE IF acc = <<>>
                      THEN <<[version |-> record.version, tracked |-> record.tracked]>>
                      ELSE <<[version |-> MaxOf(acc[1].version, record.version),
                              tracked |-> acc[1].tracked /\ ~record.tracked]>>
         IN  HighestFold(spec, records, i + 1, next)

\* Index::find_highest_version
find_highest_version(ix, spec) ==
    HighestFold(spec, package_variants(ix, spec.name).variants, 1, <<>>)

\* b_specs_by_name: collecting (name, spec) pairs into a HashMap keeps, for
\* each name, the last spec of the list.
HasSpecNamed(specs, name) == \E i \in 1..Len(specs) : specs[i].name = name

LastSpecNamed(specs, name) ==
    LET last == CHOOSE i \in 1..Len(specs) :
                    /\ specs[i].name = name
                    /\ \A j \in (i + 1)..Len(specs) : specs[j].name # name
    IN  specs[last]

\* One turn of the loop over a's specs: what it adds to total_score.
SpecScore(ix, a_spec, b_specs) ==
    IF ~HasSpecNamed(b_specs, a_spec.name) THEN 0
    ELSE LET b_spec == LastSpecNamed(b_specs, a_spec.name)
             highest_a == find_highest_version(ix, a_spec)
             highest_b == find_highest_version(ix, b_spec)
         IN  IF a_spec = b_spec THEN 0
             ELSE IF highest_a = <<>> \/ highest_b = <<>> THEN 0
             ELSE CASE CmpBool(highest_a[1].tracked, highest_b[1].tracked) = "Less" -> -100
                    [] CmpBool(highest_a[1].tracked, highest_b[1].tracked) = "Greater" -> 100
                    [] OTHER ->
                        CASE CmpInt(highest_a[1].version, highest_b[1].version) = "Less" -> 1
                          [] CmpInt(highest_a[1].version, highest_b[1].version) = "Equal" -> 0
                          [] OTHER -> -1

RECURSIVE TotalScore(_, _, _, _)
TotalScore(ix, a_specs, b_specs, i) ==
    IF i > Len(a_specs) THEN 0
    ELSE SpecScore(ix, a_specs[i], b_specs) + TotalScore(ix, a_specs, b_specs, i + 1)

\* Index::compare_variants
CompareTrackedSwapped(ix, u, a_idx, b_idx) ==
    LET a == u.variants[a_idx + 1]
        b == u.variants[b_idx + 1]
    IN  IF CmpBool(~a.tracked, ~b.tracked) # "Equal" THEN CmpBool(~a.tracked, ~b.tracked)
        ELSE IF CmpInt(a.version, b.version) = "Less" THEN "Greater"
        ELSE IF CmpInt(a.version, b.version) = "Greater" THEN "Less"
        ELSE IF CmpInt(a.build_number, b.build_number) = "Less" THEN "Greater"
        ELSE IF CmpInt(a.build_number, b.build_number) = "Greater" THEN "Less"
        ELSE CmpInt(b.timestamp, a.timestamp)

compare_variants(ix, u, a_idx, b_idx) ==
    LET a == u.variants[a_idx + 1]
        b == u.variants[b_idx + 1]
        a_has_tracked_features == ~a.tracked
        b_has_tracked_features == ~b.tracked
        total_score == TotalScore(ix, dependencies(u, a_idx), dependencies(u, b_idx), 1)
    IN  IF CmpBool(b_has_tracked_features, a_has_tracked_features) # "Equal"
        THEN CmpBool(b_has_tracked_features, a_has_tracked_features)
        ELSE IF CmpInt(a.version, b.version) = "Less" THEN "Greater"
        ELSE IF CmpInt(a.version, b.version) = "Greater" THEN "Less"
        ELSE IF CmpInt(a.build_number, b.build_number) = "Less" THEN "Greater"
        ELSE IF CmpInt(a.build_number, b.build_number) = "Greater" THEN "Less"
        ELSE IF CmpInt(total_score, 0) # "Equal" THEN CmpInt(total_score, 0)
        ELSE CmpInt(b.timestamp, a.timestamp)

\* slice::sort_by on a short slice is an insertion sort. It takes x before y
\* when the comparison of x with y is Less. The standard library has inserted
\* each element into the sorted slice to its left (InsertTail) or into the
\* sorted slice to its right (InsertHead); the two agree whenever the
\* comparison is a total order.
RECURSIVE TailPosition(_, _, _, _, _)
TailPosition(ix, u, sorted, x, j) ==
    IF j >= 1 /\ compare_variants(ix, u, x, sorted[j]) = "Less"
    THEN TailPosition(ix, u, sorted, x, j - 1)
    ELSE j

InsertTail(ix, u, sorted, x) ==
    LET j == TailPosition(ix, u, sorted, x, Len(sorted))
    IN  SubSeq(sorted, 1, j) \o <<x>> \o SubSeq(sorted, j + 1, Len(sorted))

RECURSIVE SortLeft(_, _, _)
SortLeft(ix, u, n) ==
    IF n = 0 THEN <<>> ELSE InsertTail(ix, u, SortLeft(ix, u, n - 1), n - 1)

RECURSIVE HeadPosition(_, _, _, _, _)
HeadPosition(ix, u, sorted, x, j) ==
    IF j < Len(sorted) /\ compare_variants(ix, u, sorted[j + 1], x) = "Less"
    THEN HeadPosition(ix, u, sorted, x, j + 1)
    ELSE j

InsertHead(ix, u, sorted, x) ==
    LET j == HeadPosition(ix, u, sorted, x, 0)
    IN  SubSeq(sorted, 1, j) \o <<x>> \o SubSeq(sorted, j + 1, Len(sorted))

\* SortRight(ix, u, i): the indices i..len-1, sorted.
RECURSIVE SortRight(_, _, _)
SortRight(ix, u, i) ==
    IF i >= Len(u.variants) THEN <<>>
    ELSE InsertHead(ix, u, SortRight(ix, u, i + 1), i)

\* The closure of Index::variants_order: the orders sort_by can leave.
SortedOrders(ix, u) == {SortLeft(ix, u, Len(u.variants)), SortRight(ix, u, 0)}

\* ------------------------------------------------------ dependency provider
\* name.starts_with("__"), for the names of the model.
IsRootName(name) == name = Root

StartsWithDunder(name) == name \in {PkgV, Root}

\* DependencyConstraints: a map, here a function from the names it holds to
\* Requirement::Required(set) or Requirement::Constrained(set).
Required(set) == [req |-> "Required", set |-> set]
Constrained(set) == [req |-> "Constrained", set |-> set]
MapPut(map, k, v) == [x \in (DOMAIN map) \cup {k} |-> IF x = k THEN v ELSE map[x]]

\* Dependencies::Known(map), Dependencies::Unknown, and the error of
\* get_dependencies, which names the package without entries.
Known(map) == [kind |-> "Known", deps |-> map, name |-> ""]
Unknown == [kind |-> "Unknown", deps |-> <<>>, name |-> ""]
NoEntries(name) == [kind |-> "Err", deps |-> <<>>, name |-> name]

\* The loop of get_dependencies over record.constrains.
ConstrainsLoopSkipping(ix, constrains, i, result) == result

RECURSIVE ConstrainsLoop(_, _, _, _)
ConstrainsLoop(ix, constrains, i, result) ==
    IF i > Len(constrains) THEN result
    ELSE LET match_spec == MatchSpecFromStr(constrains[i])
             name == match_spec.name
             range == range_from_matchspec(package_variants(ix, name), match_spec)
             entry == IF name \in DOMAIN result
                      THEN [result[name] EXCEPT !.set = intersection(@, range)]
                      ELSE Constrained(range)
         IN  ConstrainsLoop(ix, constrains, i + 1, MapPut(result, name, entry))

\* The loop of get_dependencies over the parsed depends, with its returns.
RECURSIVE DependsLoopReplacing(_, _, _, _)
DependsLoopReplacing(ix, deps, i, result) ==
    IF i > Len(deps) THEN Known(result)
    ELSE LET match_spec == deps[i]
             name == match_spec.name
             version_set == package_variants(ix, name)
             range == range_from_matchspec(version_set, match_spec)
         IN  IF version_set.variants = <<>>
             THEN IF StartsWithDunder(version_set.name) THEN Unknown ELSE NoEntries(name)
             ELSE DependsLoopReplacing(ix, deps, i + 1, MapPut(result, name, Required(range)))

RECURSIVE DependsLoopKeeping(_, _, _, _)
DependsLoopKeeping(ix, deps, i, result) ==
    IF i > Len(deps) THEN Known(result)
    ELSE LET match_spec == deps[i]
             name == match_spec.name
             version_set == package_variants(ix, name)
             range == range_from_matchspec(version_set, match_spec)
             entry == IF name \in DOMAIN result
                      THEN Required(result[name].set)
                      ELSE Required(range)
         IN  IF version_set.variants = <<>>
             THEN IF StartsWithDunder(version_set.name) THEN Unknown ELSE NoEntries(name)
             ELSE DependsLoopKeeping(ix, deps, i + 1, MapPut(result, name, entry))

RECURSIVE DependsLoop(_, _, _, _)
DependsLoop(ix, deps, i, result) ==
    IF i > Len(deps) THEN Known(result)
    ELSE LET match_spec == deps[i]
             name == match_spec.name
             version_set == package_variants(ix, name)
             range == range_from_matchspec(version_set, match_spec)
             entry == IF name \in DOMAIN result
                      THEN Required(intersection(result[name].set, range))
                      ELSE Required(range)
         IN  IF version_set.variants = <<>>
             THEN IF StartsWithDunder(version_set.name) THEN Unknown ELSE NoEntries(name)
             ELSE DependsLoop(ix, deps, i + 1, MapPut(result, name, entry))

\* DependencyProvider::get_dependencies for the variant idx of universe u.
get_dependencies(ix, u, idx) ==
    LET record == u.variants[idx + 1]
    IN  DependsLoop(ix, dependencies(u, idx), 1,
                    ConstrainsLoop(ix, record.constrains, 1, <<>>))

\* Index::variants_order: the order sort_by leaves, for the insertion sort the
\* standard library of the build has ("tail" or "head").
variants_order(ix, u, by) ==
    IF by = "tail" THEN SortLeft(ix, u, Len(u.variants)) ELSE SortRight(ix, u, 0)

\* The names whose universes compare_variants asks package_variants for,
\* through find_highest_version: those of the specs of a that b has under the
\* same name and that differ, when the comparison reaches the dependencies.
CompareLooksUp(u, a_idx, b_idx) ==
    LET a == u.variants[a_idx + 1]
        b == u.variants[b_idx + 1]
        a_specs == dependencies(u, a_idx)
        b_specs == dependencies(u, b_idx)
    IN  IF a.tracked # b.tracked \/ a.version # b.version
           \/ a.build_number # b.build_number
        THEN {}
        ELSE {a_specs[i].name : i \in {k \in 1..Len(a_specs) :
                  /\ HasSpecNamed(b_specs, a_specs[k].name)
                  /\ a_specs[k] # LastSpecNamed(b_specs, a_specs[k].name)}}

\* The pairs sort_by compares: the element inserted against the sorted slice,
\* up to and with the first element it does not pass.
ComparedTail(ix, u) ==
    UNION {LET sorted == SortLeft(ix, u, x)
               j == TailPosition(ix, u, sorted, x, x)
           IN  {<<x, sorted[k]>> : k \in MaxOf(j, 1)..x} : x \in 1..(Len(u.variants) - 1)}

ComparedHead(ix, u) ==
    UNION {LET sorted == SortRight(ix, u, x + 1)
               j == HeadPosition(ix, u, sorted, x, 0)
           IN  {<<sorted[k], x>> : k \in 1..(IF j < Len(sorted) THEN j + 1 ELSE j)} :
           x \in 0..(Len(u.variants) - 2)}

SortLooksUp(ix, u, by) ==
    UNION {CompareLooksUp(u, pair[1], pair[2]) :
           pair \in IF by = "tail" THEN ComparedTail(ix, u) ELSE ComparedHead(ix, u)}

\* package_variants_cache after package_variants was called for these names:
\* a name without an entry gets the universe its call built.
CacheWith(ix, names) ==
    [n \in (DOMAIN ix.cache) \cup names |-> package_variants(ix, n)]

\* A (package, range) pair of potential_packages.
Potential(package, range) == [package |-> package, range |-> range]

\* The loop of choose_package_version over potential_packages. min_package is
\* None (<<>>) or Some (<<i>>, the position of the pair it holds); before the
\* first pair min_dependency_count is usize::MAX, which every count is below.
RECURSIVE MinPackage(_, _, _, _, _)
MinPackage(ix, potential, i, min_package, min_dependency_count) ==
    IF i > Len(potential) THEN min_package
    ELSE LET variants == package_variants(ix, potential[i].package)
             count == available_variant_count_in_range(variants, potential[i].range)
         IN  IF min_package = <<>> \/ count < min_dependency_count
             THEN MinPackage(ix, potential, i + 1, <<i>>, count)
             ELSE MinPackage(ix, potential, i + 1, min_package, min_dependency_count)

\* The loop over variants_order run from the end: the last index the range
\* contains.
LastContained(order, range, k) ==
    LET hits == {j \in k..Len(order) : contains_variant_index(range, order[j])}
    IN  IF hits = {} THEN <<>>
        ELSE <<order[CHOOSE j \in hits : \A i \in hits : i <= j]>>

\* The loop over variants_order: the first index the range contains, as
\* <<variant_idx>>, or <<>> when the loop ends without returning.
RECURSIVE FirstContained(_, _, _)
FirstContained(order, range, k) ==
    IF k > Len(order) THEN <<>>
    ELSE IF contains_variant_index(range, order[k]) THEN <<order[k]>>
    ELSE FirstContained(order, range, k + 1)

Chosen(package, index) == [kind |-> "Ok", package |-> package, index |-> index]
NothingToChoose == [kind |-> "Err", package |-> "", index |-> 0]

\* DependencyProvider::choose_package_version
choose_package_version(ix, potential, by) ==
    LET min_package == MinPackage(ix, potential, 1, <<>>, 0)
    IN  IF min_package = <<>> THEN NothingToChoose
        ELSE LET pair == potential[min_package[1]]
                 variants == package_variants(ix, pair.package)
                 found == FirstContained(variants_order(ix, variants, by), pair.range, 1)
             IN  IF found = <<>> THEN NothingToChoose
                 ELSE Chosen(pair.package, found[1])

\* The names get_dependencies asks package_variants for: those of all the
\* constrains, and those of the depends up to the one it returns at.
RECURSIVE DependsLooksUp(_, _, _)
DependsLooksUp(ix, deps, i) ==
    IF i > Len(deps) THEN {}
    ELSE IF package_variants(ix, deps[i].name).variants = <<>> THEN {deps[i].name}
    ELSE {deps[i].name} \cup DependsLooksUp(ix, deps, i + 1)

GetDependenciesLooksUp(ix, u, idx) ==
    LET constrains == u.variants[idx + 1].constrains
    IN  {MatchSpecFromStr(constrains[i]).name : i \in 1..Len(constrains)}
        \cup DependsLooksUp(ix, dependencies(u, idx), 1)

\* ---------------------------------------------------------------- state
VARIABLES
    au,       \* algebra: the shared universe of the registers
    regs,     \* algebra: three candidate sets over au
    du,       \* derivation: the universe
    dspec,    \* derivation: the match spec last derived, <<spec>> (<<>> before)
    dset,     \* derivation: range_from_matchspec(du, dspec[1])
    ou,       \* ordering: the variants of PkgA, the universe that is ordered
    ox,       \* ordering: the variants of PkgB, which PkgA's records depend on
    ocmp,     \* ordering: the last compare_variants call, <<[a, b, ord]>>
    oby,      \* ordering: the by_order cell of PkgA's universe, <<order>> once set
    repo_datas,             \* Index: per repodata, the records of each name
    package_variants_cache, \* Index: the universes created so far, by name
    sortBy,   \* the insertion sort of the build: "tail" or "head"
    mapOrder, \* the order in which the hash maps of the build yield the names
    call,     \* provider: the arguments of the last call, <<args>>
    ret,      \* provider: what the last call returned, <<value>>
    lock,     \* lock file: the CondaLock in memory
    doc,      \* lock file: the document last written or received, <<document>>
    read,     \* lock file: what deserializing doc gave, <<result>>
    created   \* create command: its last run, <<[inputs and outcome]>>

vars == <<au, regs, du, dspec, dset, ou, ox, ocmp, oby,
          repo_datas, package_variants_cache, sortBy, mapOrder, call, ret,
          lock, doc, read, created>>
algVars == <<au, regs>>
derVars == <<du, dspec, dset>>
ordVars == <<ou, ox, ocmp, oby>>
ixVars == <<repo_datas, package_variants_cache, sortBy, mapOrder, call, ret>>
lockVars == <<lock, doc, read>>
cmdVars == <<created>>

\* The parts of the state a specification does not use stay as they are here.
AlgIdle == au = PackageVariants(PkgA, <<>>) /\ regs = <<>>
DerIdle == du = PackageVariants(PkgA, <<>>) /\ dspec = <<>> /\ dset = Empty
OrdIdle == ou = <<>> /\ ox = <<>> /\ ocmp = <<>> /\ oby = <<>>
IxIdle ==
    /\ repo_datas = <<>> /\ package_variants_cache = <<>>
    /\ sortBy = "tail" /\ mapOrder = <<>> /\ call = <<>> /\ ret = <<>>

LockIdle == lock = <<>> /\ doc = <<>> /\ read = <<>>
CmdIdle == created = <<>>

Regs == 1..3

\* ------------------------------------------------ the candidate set algebra
\* The universe of size n: variant i has version (i mod MaxVersion) + 1.
SizedUniverse(n) ==
    PackageVariants(PkgA, [i \in 1..n |-> PlainRecord(PkgA, ((i - 1) % MaxVersion) + 1)])

RangeSpecs(n) == {MatchSpec(n, lo, hi) : lo \in Versions, hi \in Versions}

AlgInit ==
    /\ au \in {SizedUniverse(n) : n \in 0..MaxVariants}
    /\ regs = [r \in Regs |-> Empty]
    /\ DerIdle /\ OrdIdle /\ IxIdle /\ LockIdle /\ CmdIdle

OpEmpty(t) == regs' = [regs EXCEPT ![t] = Empty] /\ UNCHANGED au

OpFull(t) == regs' = [regs EXCEPT ![t] = Full] /\ UNCHANGED au

OpSingleton(t) ==
    \E idx \in 0..(Len(au.variants) - 1) :
        regs' = [regs EXCEPT ![t] = singleton(au, idx)] /\ UNCHANGED au

OpComplement(t) ==
    \E s \in Regs : regs' = [regs EXCEPT ![t] = complement(regs[s])] /\ UNCHANGED au

OpIntersection(t) ==
    \E s1 \in Regs, s2 \in Regs :
        regs' = [regs EXCEPT ![t] = intersection(regs[s1], regs[s2])] /\ UNCHANGED au

OpUnion(t) ==
    \E s1 \in Regs, s2 \in Regs :
        regs' = [regs EXCEPT ![t] = union(regs[s1], regs[s2])] /\ UNCHANGED au

OpRange(t) ==
    \E spec \in RangeSpecs(PkgA) :
        regs' = [regs EXCEPT ![t] = range_from_matchspec(au, spec)] /\ UNCHANGED au

AlgNext ==
    /\ UNCHANGED <<derVars, ordVars, ixVars, lockVars, cmdVars>>
    /\ \E t \in Regs :
        \/ OpEmpty(t)
        \/ OpFull(t)
        \/ OpSingleton(t)
        \/ OpComplement(t)
        \/ OpIntersection(t)
        \/ OpUnion(t)
        \/ OpRange(t)

SpecAlgebra == AlgInit /\ [][AlgNext]_vars

\* C1: every Discrete set produced by the operations has at least one bit set
\* and at least one bit clear (popcount is neither 0 nor the universe size).
Normalized(s) ==
    s.kind = "Discrete" =>
        /\ CountOnes(s.included) # 0
        /\ CountOnes(s.included) # Len(au.variants)

C1_Normalization == \A r \in Regs : Normalized(regs[r])

\* C2: the algebra laws, over the sets the operations produce on one universe,
\* with the equality of PackageVariantSet: double complement, the identities
\* of intersection and union, s and its complement are disjoint and cover the
\* universe, and intersection and union are commutative and associative.
LawsOf(s, a, b, c) ==
    /\ SetEq(complement(complement(s)), s)
    /\ SetEq(intersection(s, Full), s)
    /\ SetEq(union(s, Empty), s)
    /\ SetEq(intersection(s, complement(s)), Empty)
    /\ SetEq(union(s, complement(s)), Full)
    /\ SetEq(intersection(a, b), intersection(b, a))
    /\ SetEq(union(a, b), union(b, a))
    /\ SetEq(intersection(intersection(a, b), c), intersection(a, intersection(b, c)))
    /\ SetEq(union(union(a, b), c), union(a, union(b, c)))

C2_AlgebraLaws ==
    \A s \in Regs, x \in Regs, y \in Regs, z \in Regs :
        LawsOf(regs[s], regs[x], regs[y], regs[z])

\* Three different Discrete sets, two of them overlapping without being equal.
C2_Witness ==
    /\ \A r \in Regs : regs[r].kind = "Discrete"
    /\ regs[1] # regs[2] /\ regs[2] # regs[3] /\ regs[1] # regs[3]
    /\ intersection(regs[1], regs[2]).kind = "Discrete"
    /\ union(regs[2], regs[3]).kind = "Full"

\* ------------------------------------------- deriving a set from a match spec
\* Every universe of at most MaxVariants records of one name.
AllUniverses(n) ==
    UNION {{PackageVariants(n, [i \in 1..k |-> PlainRecord(n, f[i])]) :
                f \in [1..k -> Versions]} : k \in 0..MaxVariants}

DerInit ==
    /\ du \in AllUniverses(PkgA)
    /\ dspec = <<>>
    /\ dset = Empty
    /\ AlgIdle /\ OrdIdle /\ IxIdle /\ LockIdle /\ CmdIdle

Derive ==
    \E spec \in RangeSpecs(PkgA) \cup RangeSpecs(PkgB) :
        /\ dspec' = <<spec>>
        /\ dset' = range_from_matchspec(du, spec)
        /\ UNCHANGED du

DerNext == Derive /\ UNCHANGED <<algVars, ordVars, ixVars, lockVars, cmdVars>>

SpecDerive == DerInit /\ [][DerNext]_vars

VariantIndices(u) == 0..(Len(u.variants) - 1)

\* C3: the derived set contains a variant index exactly when the spec matches
\* that variant's record; it is Empty when no variant matches (so also for an
\* empty universe) and Full when every variant of a non-empty universe matches.
C3_SpecDerivation ==
    dspec # <<>> =>
        /\ \A v \in VariantIndices(du) :
                contains_variant_index(dset, v) <=> Matches(dspec[1], du.variants[v + 1])
        /\ (\A v \in VariantIndices(du) : ~Matches(dspec[1], du.variants[v + 1]))
                => SetEq(dset, Empty)
        /\ (VariantIndices(du) # {}
                /\ \A v \in VariantIndices(du) : Matches(dspec[1], du.variants[v + 1]))
                => SetEq(dset, Full)

\* A spec that matches some variants and not others has been derived.
C3_Witness ==
    /\ dspec # <<>>
    /\ dset.kind = "Discrete"
    /\ \E v \in VariantIndices(du) : contains_variant_index(dset, v)
    /\ \E v \in VariantIndices(du) : ~contains_variant_index(dset, v)

\* The empty universe has been derived from.
C3_WitnessEmptyUniverse == dspec # <<>> /\ du.variants = <<>> /\ dset = Empty

\* ------------------------------------------------- comparing two variants
\* The universes of PkgB that hold each version at most once, in ascending
\* order, each record with or without tracked features.
RECURSIVE DepUniverse(_, _)
DepUniverse(shape, v) ==
    IF v > MaxVersion THEN <<>>
    ELSE (IF shape[v] = "absent" THEN <<>>
          ELSE <<Record(PkgB, v, 0, shape[v] = "tracked", 0, <<>>, <<>>)>>)
         \o DepUniverse(shape, v + 1)

DepUniverses ==
    {DepUniverse(shape, 1) : shape \in [Versions -> {"absent", "plain", "tracked"}]}

\* Those of them that hold every version.
FullDepUniverses ==
    {DepUniverse(shape, 1) : shape \in [Versions -> {"plain", "tracked"}]}

\* Dependency strings on PkgB, and the depends lists of at most k of them.
DepStrs == {<<PkgB, 1, hi>> : hi \in Versions}
DepLists(k) == UNION {[1..n -> DepStrs] : n \in 0..k}

\* Records of PkgA for a comparison: every head (tracked features, version,
\* build number), every timestamp, at most one dependency.
CmpRecords ==
    {Record(PkgA, v, bn, tr, ts, deps, <<>>) :
        v \in Versions, bn \in 0..MaxBuild, tr \in BOOLEAN,
        ts \in 0..MaxTime, deps \in DepLists(1)}

\* The Index the ordering works on: nothing cached, one repodata.
OrdIndex ==
    Index(<<>>, <<[n \in Names |-> IF n = PkgA THEN ou
                                  ELSE IF n = PkgB THEN ox ELSE <<>>]>>)

OrdUniverse == package_variants(OrdIndex, PkgA)

CmpInit ==
    /\ ou \in [1..2 -> CmpRecords]
    /\ ox \in FullDepUniverses
    /\ ocmp = <<>>
    /\ oby = <<>>
    /\ AlgIdle /\ DerIdle /\ IxIdle /\ LockIdle /\ CmdIdle

Compare ==
    \E a_idx \in VariantIndices(OrdUniverse), b_idx \in VariantIndices(OrdUniverse) :
        /\ a_idx # b_idx
        /\ ocmp' = <<[a |-> a_idx, b |-> b_idx,
                      ord |-> compare_variants(OrdIndex, OrdUniverse, a_idx, b_idx)]>>
        /\ UNCHANGED <<ou, ox, oby>>

CmpNext == Compare /\ UNCHANGED <<algVars, derVars, ixVars, lockVars, cmdVars>>

SpecCompare == CmpInit /\ [][CmpNext]_vars

\* What the head of the cascade (tracked features, then version, then build
\* number) says of records a and b: "Equal" when all three agree.
HeadOrder(a, b) ==
    IF ~a.tracked /\ b.tracked THEN "Less"
    ELSE IF a.tracked /\ ~b.tracked THEN "Greater"
    ELSE IF a.version > b.version THEN "Less"
    ELSE IF a.version < b.version THEN "Greater"
    ELSE IF a.build_number > b.build_number THEN "Less"
    ELSE IF a.build_number < b.build_number THEN "Greater"
    ELSE "Equal"

\* C9: compare_variants ranks a variant without tracked features before one
\* with them whatever the versions; with the same tracked-feature emptiness
\* the higher version ranks first; with equal versions too the higher build
\* number ranks first. Dependencies and timestamps decide only when the
\* three are equal.
C9_CascadeHead ==
    ocmp # <<>> =>
        LET a == ou[ocmp[1].a + 1]
            b == ou[ocmp[1].b + 1]
        IN  HeadOrder(a, b) # "Equal" => ocmp[1].ord = HeadOrder(a, b)

\* Scenario S4: the variant without tracked features has the lower version,
\* and a dependency and a timestamp that differ from the other's.
C9_Witness ==
    /\ ocmp # <<>>
    /\ LET a == ou[ocmp[1].a + 1]
           b == ou[ocmp[1].b + 1]
       IN  /\ ~a.tracked /\ b.tracked
           /\ a.version < b.version
           /\ a.timestamp < b.timestamp
           /\ a.depends # b.depends /\ a.depends # <<>> /\ b.depends # <<>>
           /\ ocmp[1].ord = "Less"

\* ------------------------------------------------- ordering a universe
\* Records of PkgA for an ordering: the base record (no tracked features,
\* version 1, build number 0, timestamp 0) with at most one of these changed,
\* and any depends list.
OrdShapes ==
    {<<FALSE, 1, 0, 0>>, <<TRUE, 1, 0, 0>>}
        \cup {<<FALSE, v, 0, 0>> : v \in Versions}
        \cup {<<FALSE, 1, bn, 0>> : bn \in 0..MaxBuild}
        \cup {<<FALSE, 1, 0, ts>> : ts \in 0..MaxTime}

OrdRecords ==
    {Record(PkgA, h[2], h[3], h[1], h[4], deps, <<>>) :
        h \in OrdShapes, deps \in DepLists(MaxDeps)}

OrdInit ==
    /\ ou \in UNION {[1..n -> OrdRecords] : n \in 0..MaxVariants}
    /\ ox \in DepUniverses
    /\ ocmp = <<>>
    /\ oby = <<>>
    /\ AlgIdle /\ DerIdle /\ IxIdle /\ LockIdle /\ CmdIdle

\* Index::variants_order: by_order.get_or_init(..)
VariantsOrder ==
    /\ IF oby = <<>>
       THEN oby' \in {<<order>> : order \in SortedOrders(OrdIndex, OrdUniverse)}
       ELSE oby' = oby
    /\ UNCHANGED <<ou, ox, ocmp>>

OrdNext == VariantsOrder /\ UNCHANGED <<algVars, derVars, ixVars, lockVars, cmdVars>>

SpecOrder == OrdInit /\ [][OrdNext]_vars

IsPermutation(order, n) ==
    /\ Len(order) = n
    /\ \A idx \in 0..(n - 1) : \E k \in 1..n : order[k] = idx

\* Adjacent variants are in the order of the cascade, and variants the
\* cascade ranks equal are in ascending index order.
InCascadeOrder(order) ==
    /\ \A k \in 1..(Len(order) - 1) :
           compare_variants(OrdIndex, OrdUniverse, order[k], order[k + 1])
               \in {"Less", "Equal"}
    /\ \A k \in 1..Len(order), l \in 1..Len(order) :
           (k < l /\ compare_variants(OrdIndex, OrdUniverse, order[k], order[l]) = "Equal")
               => order[k] < order[l]

\* C10: by_order is a permutation of the variant indices, every adjacent pair
\* (i, j) of it has compare_variants(i, j) <= Equal under the whole cascade,
\* variants ranked equal keep ascending index order, and once computed it
\* does not change.
C10_ByOrderSorted ==
    [][/\ oby' # <<>> =>
            /\ IsPermutation(oby'[1], Len(ou))
            /\ InCascadeOrder(oby'[1])
       /\ oby # <<>> => oby' = oby]_vars

\* ------------------------------------------------------ choosing a package
TheIndex == Index(package_variants_cache, repo_datas)
SortFlavours == {"tail", "head"}

\* One repodata with these records of PkgA and of PkgB and none of the others.
RepoData(a_records, b_records) ==
    [n \in Names |-> IF n = PkgA THEN a_records
                     ELSE IF n = PkgB THEN b_records ELSE <<>>]

\* The universe of n with k records: record i has version (i mod MaxVersion) + 1.
Sized(n, k) ==
    PackageVariants(n, [i \in 1..k |-> PlainRecord(n, ((i - 1) % MaxVersion) + 1)])

\* The candidate sets over a universe: Empty, Full and every Discrete set the
\* algebra can leave (in a universe of one variant also all-ones and all-zeros).
SetsOver(u) ==
    {Empty, Full} \cup
    {Discrete(bv) : bv \in {b \in [1..Len(u.variants) -> BOOLEAN] :
                              Len(u.variants) = 1 \/ (~BitNone(b) /\ ~BitAll(b))}}

\* The lists potential_packages can be: each package at most once.
PotentialLists ==
    LET OfA == {Potential(PkgA, r) : r \in SetsOver(package_variants(TheIndex, PkgA))}
        OfB == {Potential(PkgB, r) : r \in SetsOver(package_variants(TheIndex, PkgB))}
    IN  {<<>>} \cup {<<p>> : p \in OfA \cup OfB}
        \cup {<<p, q>> : p \in OfA, q \in OfB} \cup {<<q, p>> : p \in OfA, q \in OfB}

ChooseInit ==
    /\ repo_datas \in {<<RepoData(Sized(PkgA, k).variants, Sized(PkgB, l).variants)>> :
                           k \in 0..MaxVariants, l \in 0..MaxVariants}
    /\ package_variants_cache = <<>>
    /\ sortBy \in SortFlavours
    /\ mapOrder = <<>>
    /\ call = <<>>
    /\ ret = <<>>
    /\ AlgIdle /\ DerIdle /\ OrdIdle /\ LockIdle /\ CmdIdle

ChoosePackageVersion ==
    \E potential \in PotentialLists :
        LET min_package == MinPackage(TheIndex, potential, 1, <<>>, 0)
            names == {potential[i].package : i \in 1..Len(potential)}
            sorted == IF min_package = <<>> THEN {}
                      ELSE SortLooksUp(TheIndex,
                               package_variants(TheIndex, potential[min_package[1]].package),
                               sortBy)
        IN  /\ call' = <<potential>>
            /\ ret' = <<choose_package_version(TheIndex, potential, sortBy)>>
            /\ package_variants_cache' = CacheWith(TheIndex, names \cup sorted)
            /\ UNCHANGED <<repo_datas, sortBy, mapOrder>>

ChooseNext == ChoosePackageVersion /\ UNCHANGED <<algVars, derVars, ordVars, lockVars, cmdVars>>

SpecChoose == ChooseInit /\ [][ChooseNext]_vars

Population(pair) ==
    available_variant_count_in_range(package_variants(TheIndex, pair.package), pair.range)

\* C4: choose_package_version selects the first pair of smallest non-zero
\* population: whenever some pair it is given has a non-zero population, it
\* returns a variant of the first pair whose population is the least of the
\* non-zero ones, and never stops at a pair of population zero.
C4_SmallestNonZero ==
    call # <<>> =>
        LET potential == call[1]
            nonZero == {i \in 1..Len(potential) : Population(potential[i]) > 0}
        IN  nonZero # {} =>
                /\ ret[1].kind = "Ok"
                /\ \E i \in nonZero :
                       /\ \A j \in nonZero :
                              /\ Population(potential[i]) <= Population(potential[j])
                              /\ j < i => Population(potential[i]) < Population(potential[j])
                       /\ ret[1].package = potential[i].package

\* ------------------------------------------------- retrieving dependencies
\* Dependency strings: every non-empty interval of PkgB, the virtual package,
\* and the package no repodata has.
SpecStrs ==
    {<<PkgB, iv[1], iv[2]>> : iv \in {p \in Versions \X Versions : p[1] <= p[2]}}
    \cup {<<PkgV, 1, MaxVersion>>, <<PkgM, 1, MaxVersion>>}

ShortLists(S) == {<<>>} \cup {<<x>> : x \in S} \cup {<<x, y>> : x \in S, y \in S}

\* Index::add_package: the universe of one variant it builds for the package.
VirtualUniverse(package) == PackageVariants(package.name, <<package>>)

\* get_dependencies sorts nothing, so one sort stands for both.
DepsInit ==
    /\ repo_datas \in
           {<<RepoData(<<Record(PkgA, 1, 0, FALSE, 0, deps, cons)>>, Sized(PkgB, l).variants)>> :
               deps \in ShortLists(SpecStrs), cons \in ShortLists(SpecStrs),
               l \in 0..MaxVariants}
    /\ package_variants_cache = <<>>
    /\ sortBy = "tail"
    /\ mapOrder = <<>>
    /\ call = <<>>
    /\ ret = <<>>
    /\ AlgIdle /\ DerIdle /\ OrdIdle /\ LockIdle /\ CmdIdle

\* Index::add_package for a virtual package that has no universe yet.
AddPackage ==
    \E v \in {MaxVersion} :
        /\ PkgV \notin DOMAIN package_variants_cache
        /\ package_variants_cache' =
               [n \in (DOMAIN package_variants_cache) \cup {PkgV} |->
                   IF n = PkgV THEN VirtualUniverse(PlainRecord(PkgV, v))
                   ELSE package_variants_cache[n]]
        /\ UNCHANGED <<repo_datas, sortBy, mapOrder, call, ret>>

\* get_dependencies for the variant of PkgA, whose VariantId the caller got
\* from package_variants.
GetDependencies ==
    LET u == package_variants(TheIndex, PkgA)
    IN  /\ call' = <<[package |-> PkgA, index |-> 0]>>
        /\ ret' = <<get_dependencies(TheIndex, u, 0)>>
        /\ package_variants_cache' =
               CacheWith(TheIndex, {PkgA} \cup GetDependenciesLooksUp(TheIndex, u, 0))
        /\ UNCHANGED <<repo_datas, sortBy, mapOrder>>

DepsNext == (AddPackage \/ GetDependencies) /\ UNCHANGED <<algVars, derVars, ordVars, lockVars, cmdVars>>

SpecDeps == DepsInit /\ [][DepsNext]_vars

\* The variant get_dependencies was called for, and its parsed lists.
CalledRecord == repo_datas[1][PkgA][1]
CalledDepends == [i \in 1..Len(CalledRecord.depends) |-> MatchSpecFromStr(CalledRecord.depends[i])]
CalledConstrains ==
    [i \in 1..Len(CalledRecord.constrains) |-> MatchSpecFromStr(CalledRecord.constrains[i])]
HasNoVariants(name) == package_variants(TheIndex, name).variants = <<>>

C5_WitnessError ==
    /\ call # <<>>
    /\ ret[1] = NoEntries(PkgM)
    /\ \E i \in 1..Len(CalledDepends) : CalledDepends[i].name = PkgV

C5_WitnessKnown ==
    /\ call # <<>>
    /\ ret[1].kind = "Known"
    /\ \E i \in 1..Len(CalledDepends) : CalledDepends[i].name = PkgV

\* The specs of the called variant that name a package: constrains, then depends.
NamingSpecs(name) ==
    SelectSeq(CalledConstrains \o CalledDepends, LAMBDA spec : spec.name = name)

\* The set of the variants of a universe that all of these specs match: Empty
\* when there is none, Full when it is every variant.
MatchedByAll(u, specs) ==
    LET included == [i \in 1..Len(u.variants) |->
                        \A k \in 1..Len(specs) : Matches(specs[k], u.variants[i])]
    IN  IF BitNone(included) THEN Empty
        ELSE IF BitAll(included) THEN Full
        ELSE Discrete(included)

\* C6: in a Known result a name has an entry exactly when a constrains or
\* depends spec names it; the entry is Required when a depends spec names it
\* and Constrained when only constrains specs do; its set is the intersection
\* of the sets of all the specs that name it.
C6_MonotoneMerge ==
    (call # <<>> /\ ret[1].kind = "Known") =>
        \A name \in Names :
            LET specs == NamingSpecs(name)
                required == \E i \in 1..Len(CalledDepends) : CalledDepends[i].name = name
                deps == ret[1].deps
            IN  /\ name \in DOMAIN deps <=> specs # <<>>
                /\ name \in DOMAIN deps =>
                       /\ deps[name].req = (IF required THEN "Required" ELSE "Constrained")
                       /\ SetEq(deps[name].set,
                                MatchedByAll(package_variants(TheIndex, name), specs))

\* PkgB is constrained and then required twice, by specs of different sets.
C6_Witness ==
    /\ call # <<>>
    /\ ret[1].kind = "Known"
    /\ PkgB \in DOMAIN ret[1].deps
    /\ ret[1].deps[PkgB].req = "Required"
    /\ ret[1].deps[PkgB].set.kind = "Discrete"
    /\ Len(CalledDepends) = 2
    /\ CalledDepends[1].name = PkgB /\ CalledDepends[2].name = PkgB
    /\ CalledDepends[1] # CalledDepends[2]
    /\ range_from_matchspec(package_variants(TheIndex, PkgB), CalledDepends[2]).kind = "Full"
    /\ \E i \in 1..Len(CalledConstrains) : CalledConstrains[i].name = PkgB

\* ------------------------------------------------------------- the search
\* The search engine is a library outside this repository. It is modelled as
\* the depth-first search its contract describes: it asks the provider which
\* pending package to decide and with which variant, asks for the variant's
\* dependencies, narrows the candidate sets of the packages they name, and on
\* a conflict excludes the variant and goes on. A search state holds the
\* decided variant of each decided package, the candidate set (term) of each
\* package named so far, the packages some decided variant requires, and the
\* names package_variants was asked for.
SearchState(decided, terms, required, looked) ==
    [decided |-> decided, terms |-> terms, required |-> required, looked |-> looked]

Solved(decided, looked) == [kind |-> "Solved", decided |-> decided, looked |-> looked]
NoSolution(looked) == [kind |-> "NoSolution", decided |-> <<>>, looked |-> looked]
ProviderError(looked) == [kind |-> "Error", decided |-> <<>>, looked |-> looked]

\* The pending packages with their terms, in the order the map yields them.
PotentialPackages(st, order) ==
    LET pending == SelectSeq(order, LAMBDA n : n \in st.required \ DOMAIN st.decided)
    IN  [i \in 1..Len(pending) |-> Potential(pending[i], st.terms[pending[i]])]

\* The terms after the dependencies of a decided variant are added.
NarrowedTerms(terms, deps) ==
    [n \in (DOMAIN terms) \cup (DOMAIN deps) |->
        IF n \notin DOMAIN deps THEN terms[n]
        ELSE IF n \notin DOMAIN terms THEN deps[n].set
        ELSE intersection(terms[n], deps[n].set)]

RequiredNames(deps) == {n \in DOMAIN deps : deps[n].req = "Required"}

\* A decided variant outside a set its name is held to, or a required package
\* whose term is the empty set.
Conflict(decided, terms, required, deps) ==
    \E n \in DOMAIN deps :
        \/ n \in DOMAIN decided /\ ~contains_variant_index(deps[n].set, decided[n])
        \/ n \in required /\ terms[n] = Empty

\* The names choose_package_version asks package_variants for: those of the
\* pending packages, and what sorting the variants of the selected one asks.
ChooseLooksUp(ix, by, potential, min_package) ==
    {potential[i].package : i \in 1..Len(potential)}
    \cup SortLooksUp(ix, package_variants(ix, potential[min_package[1]].package), by)

\* The state with a variant taken out of the term of its package.
Excluding(st, u, choice, looked) ==
    [st EXCEPT !.terms[choice.package] =
                   intersection(@, complement(singleton(u, choice.index))),
               !.looked = looked]

\* The search from the state cur; backs holds, for each variant decided on
\* the way, the state to go on from if nothing below it is a solution (the
\* state before the decision, with the variant excluded).
RECURSIVE Search(_, _, _, _, _)
RECURSIVE SearchPending(_, _, _, _, _, _)
RECURSIVE SearchChosen(_, _, _, _, _, _)
RECURSIVE SearchAnswered(_, _, _, _, _, _, _, _)
RECURSIVE SearchNarrowed(_, _, _, _, _, _, _, _, _)

\* A required package left with the empty set: nothing below the last
\* decision is a solution.
Search(ix, by, order, cur, backs) ==
    IF \E n \in cur.required : cur.terms[n] = Empty
    THEN IF backs = <<>> THEN NoSolution(cur.looked)
         ELSE Search(ix, by, order, [backs[Len(backs)] EXCEPT !.looked = cur.looked],
                     SubSeq(backs, 1, Len(backs) - 1))
    ELSE SearchPending(ix, by, order, cur, backs, PotentialPackages(cur, order))

\* Nothing pending is a solution; otherwise the provider chooses.
SearchPending(ix, by, order, cur, backs, potential) ==
    IF potential = <<>> THEN Solved(cur.decided, cur.looked)
    ELSE SearchChosen(ix, by, order, backs, choose_package_version(ix, potential, by),
                      [cur EXCEPT !.looked =
                          @ \cup ChooseLooksUp(ix, by, potential,
                                               MinPackage(ix, potential, 1, <<>>, 0))])

\* An error of the provider ends the search; otherwise it is asked for the
\* dependencies of the variant it chose.
SearchChosen(ix, by, order, backs, choice, cur) ==
    IF choice.kind = "Err" THEN ProviderError(cur.looked)
    ELSE SearchAnswered(ix, by, order, backs, choice, cur,
                        package_variants(ix, choice.package),
                        get_dependencies(ix, package_variants(ix, choice.package),
                                         choice.index))

\* Unknown excludes the variant.
SearchAnswered(ix, by, order, backs, choice, cur, u, answer) ==
    IF answer.kind = "Err"
    THEN ProviderError(cur.looked \cup GetDependenciesLooksUp(ix, u, choice.index))
    ELSE IF answer.kind = "Unknown"
    THEN Search(ix, by, order,
                Excluding(cur, u, choice,
                          cur.looked \cup GetDependenciesLooksUp(ix, u, choice.index)),
                backs)
    ELSE SearchNarrowed(ix, by, order, backs, answer,
                        Excluding(cur, u, choice,
                                  cur.looked \cup GetDependenciesLooksUp(ix, u, choice.index)),
                        MapPut(cur.decided, choice.package, choice.index),
                        NarrowedTerms(cur.terms, answer.deps),
                        cur.required \cup RequiredNames(answer.deps))

\* A conflict excludes the variant; otherwise it is decided.
SearchNarrowed(ix, by, order, backs, answer, excluded, decided, terms, required) ==
    IF Conflict(decided, terms, required, answer.deps)
    THEN Search(ix, by, order, excluded, backs)
    ELSE Search(ix, by, order, SearchState(decided, terms, required, excluded.looked),
                Append(backs, excluded))

\* ------------------------------------------------------------------ solve
\* The universe solve makes for the root: one variant, whose parsed
\* dependencies are the specs.
RootVariants(specs) == PackageVariants(Root, <<Record(Root, 0, 0, FALSE, 0, specs, <<>>)>>)

\* package_variants_cache after solve inserted the root, whatever was there.
CacheWithRoot(cache, specs) ==
    [n \in (DOMAIN cache) \cup {Root} |-> IF n = Root THEN RootVariants(specs) ELSE cache[n]]

\* What solve returns: Ok with the records of the solution, the root left
\* out, in the order the solution map yields them; or Err with a message.
SolveOk(records) == [kind |-> "Ok", records |-> records]
SolveErr == [kind |-> "Err", records |-> <<>>]

SolutionRecords(ix, order, decided) ==
    LET names == SelectSeq(order, LAMBDA n : n \in DOMAIN decided /\ n # Root)
    IN  [i \in 1..Len(names) |-> package_variants(ix, names[i]).variants[decided[names[i]] + 1]]

\* The search solve runs: rooted at the one variant of the root.
Resolve(ix, by, order, specs) ==
    LET rooted == Index(CacheWithRoot(ix.cache, specs), ix.repo_datas)
    IN  Search(rooted, by, order,
               SearchState(<<>>, MapPut(<<>>, Root, singleton(RootVariants(specs), 0)),
                           {Root}, {}),
               <<>>)

\* Index::solve
solve(ix, by, order, specs) ==
    LET rooted == Index(CacheWithRoot(ix.cache, specs), ix.repo_datas)
        found == Resolve(ix, by, order, specs)
    IN  IF found.kind = "Solved" THEN SolveOk(SolutionRecords(rooted, order, found.decided))
        ELSE SolveErr

\* The repodata solve is run on. PkgA has up to two variants, of the lowest
\* and of the highest version, which depend on PkgB or on the virtual package
\* and may constrain PkgB; PkgB has up to two variants, of which the one of
\* the highest version may constrain PkgA.
ADepends ==
    {<<>>, <<<<PkgB, 1, 1>>>>, <<<<PkgB, MaxVersion, MaxVersion>>>>,
     <<<<PkgV, 1, MaxVersion>>>>, <<<<PkgB, 1, MaxVersion>>, <<PkgB, 1, 1>>>>}
AConstrains == {<<>>, <<<<PkgB, 1, 1>>>>}
BConstrains == {<<>>, <<<<PkgA, 1, 1>>>>}
ARecords(v, constrains) ==
    {Record(PkgA, v, 0, FALSE, 0, d, c) : d \in ADepends, c \in constrains}
BRecords(v, constrains) == {Record(PkgB, v, 0, FALSE, 0, <<>>, c) : c \in constrains}
UpToTwo(low, high) ==
    {<<>>} \cup {<<r>> : r \in low \cup high} \cup {<<r, q>> : r \in low, q \in high}

\* The specs handed to solve, as the strings they are parsed from.
SolveSpecStrs ==
    {<<PkgA, 1, MaxVersion>>, <<PkgB, 1, MaxVersion>>, <<PkgB, 1, 1>>,
     <<PkgV, 1, MaxVersion>>, <<PkgM, 1, MaxVersion>>}

\* The orders a hash map can yield the names in. PkgM is never pending and
\* the root only alone.
MapOrders == {<<PkgA, PkgB, PkgV, PkgM, Root>>, <<PkgV, PkgB, PkgA, PkgM, Root>>}

\* The variants of a package differ in version, which compare_variants orders
\* totally, so one sort stands for both.
SolveInit ==
    /\ repo_datas \in
           {<<RepoData(a, b)>> :
               a \in UpToTwo(ARecords(1, {<<>>}), ARecords(MaxVersion, AConstrains)),
               b \in UpToTwo(BRecords(1, {<<>>}), BRecords(MaxVersion, BConstrains))}
    /\ package_variants_cache = <<>>
    /\ sortBy = "tail"
    /\ mapOrder \in MapOrders
    /\ call = <<>>
    /\ ret = <<>>
    /\ AlgIdle /\ DerIdle /\ OrdIdle /\ LockIdle /\ CmdIdle

\* Index::solve, run once on an Index, as the create command and the tests do.
Solve ==
    \E specs \in ShortLists(SolveSpecStrs) :
        LET rooted == Index(CacheWithRoot(package_variants_cache, specs), repo_datas)
            found == Resolve(TheIndex, sortBy, mapOrder, specs)
        IN  /\ call = <<>>
            /\ call' = <<specs>>
            /\ ret' = <<solve(TheIndex, sortBy, mapOrder, specs)>>
            /\ package_variants_cache' = CacheWith(rooted, found.looked)
            /\ UNCHANGED <<repo_datas, sortBy, mapOrder>>

SolveNext == (AddPackage \/ Solve) /\ UNCHANGED <<algVars, derVars, ordVars, lockVars, cmdVars>>

SpecSolve == SolveInit /\ [][SolveNext]_vars

ParsedAll(strs) == [i \in 1..Len(strs) |-> MatchSpecFromStr(strs[i])]

\* C7: in a successful result every input spec is matched by a record of its
\* name, every depends spec of every record is matched by some record, every
\* constrains spec whose name the result holds is matched by the record of
\* that name, and no two records have the same name.
C7_SolutionConsistency ==
    (call # <<>> /\ ret[1].kind = "Ok") =>
        LET R == ret[1].records
            specs == ParsedAll(call[1])
        IN  /\ \A k \in 1..Len(specs) : \E i \in 1..Len(R) : Matches(specs[k], R[i])
            /\ \A i \in 1..Len(R) :
                   LET depends == ParsedAll(R[i].depends)
                       constrains == ParsedAll(R[i].constrains)
                   IN  /\ \A k \in 1..Len(depends) :
                              \E j \in 1..Len(R) : Matches(depends[k], R[j])
                       /\ \A k \in 1..Len(constrains) :
                              \A j \in 1..Len(R) :
                                  R[j].name = constrains[k].name => Matches(constrains[k], R[j])
            /\ \A i \in 1..Len(R), j \in 1..Len(R) : R[i].name = R[j].name => i = j

\* Two records, the one of PkgA of the lowest version although PkgA has a
\* variant of the highest; a record with a depends spec and a record with a
\* constrains spec on a name of the result.
C7_Witness ==
    /\ call # <<>>
    /\ ret[1].kind = "Ok"
    /\ Len(ret[1].records) = 2
    /\ Len(repo_datas[1][PkgA]) = 2
    /\ \E i \in 1..2 :
           /\ ret[1].records[i].name = PkgA
           /\ ret[1].records[i].version = 1
           /\ ret[1].records[i].depends # <<>>
    /\ \E i \in 1..2, j \in 1..2 :
           /\ ret[1].records[i].constrains # <<>>
           /\ ret[1].records[i].constrains[1][1] = ret[1].records[j].name

\* What the caller of solve tells apart: the set of records on success, and
\* failure.
Outcome(result) ==
    IF result.kind = "Ok"
    THEN [kind |-> "Ok", records |-> {result.records[i] : i \in 1..Len(result.records)}]
    ELSE [kind |-> "Err", records |-> {}]

Reordered(specs) ==
    {[i \in 1..Len(specs) |-> specs[f[i]]] : f \in Permutations(1..Len(specs))}

\* C8: solving any permutation of the specs that were solved, on the same
\* repodata, gives the outcome that solve gave: the same set of records on
\* success, failure on failure.
C8_OrderIndependence ==
    call # <<>> =>
        \A specs \in Reordered(call[1]) :
            Outcome(solve(TheIndex, sortBy, mapOrder, specs)) = Outcome(ret[1])

\* Two specs of different packages, each with two variants, solved with a
\* result of two records.
C8_Witness ==
    /\ call # <<>>
    /\ Len(call[1]) = 2
    /\ call[1][1][1] = PkgA /\ call[1][2][1] = PkgB
    /\ ret[1].kind = "Ok"
    /\ Len(ret[1].records) = 2
    /\ Len(repo_datas[1][PkgA]) = 2 /\ Len(repo_datas[1][PkgB]) = 2

\* Two different specs of PkgB, of which the narrower one decides the record.
C8_WitnessSamePackage ==
    /\ call # <<>>
    /\ Len(call[1]) = 2
    /\ call[1][1] # call[1][2]
    /\ call[1][1][1] = PkgB /\ call[1][2][1] = PkgB
    /\ Len(repo_datas[1][PkgB]) = 2
    /\ ret[1].kind = "Ok"
    /\ ret[1].records[1].version = 1

\* ------------------------------------------------------------ the lock file
\* Highest version field a received document has.
MaxDocVersion == 4

FILE_VERSION == 2

\* A writer one format version ahead of its own reader.
VersionAhead == FILE_VERSION + 1

\* impl Default for Version
VersionDefault == FILE_VERSION

\* What deserializing gives: a value, or the error of the version guard with
\* the two numbers its message spells.
ReadOk(value) == [kind |-> "Ok", value |-> value, found |-> 0, supported |-> 0]
NewerVersion(version, supported) ==
    [kind |-> "Err", value |-> <<>>, found |-> version, supported |-> supported]

\* impl Deserialize for Version. The field is a u32; the versions of the model
\* are far below its width.
VersionGuardInclusive(version) ==
    IF version >= FILE_VERSION THEN NewerVersion(version, FILE_VERSION)
    ELSE ReadOk(version)

VersionDeserialize(version) ==
    IF version > FILE_VERSION THEN NewerVersion(version, FILE_VERSION)
    ELSE ReadOk(version)

\* A LockedDependency, reduced to what serialize compares and one field (url)
\* it does not. Names and platforms are numbered in alphabetic order; a pip
\* entry has no build (kept 0).
LockedDependency(name, platform, version, kind, build, url) ==
    [name |-> name, platform |-> platform, version |-> version,
     kind |-> kind, build |-> build, url |-> url]

CondaLock(metadata, package) == [metadata |-> metadata, package |-> package]
Document(version, metadata, package) ==
    [version |-> version, metadata |-> metadata, package |-> package]

\* impl Deserialize for CondaLock: Raw is read field by field, the version
\* first, and the version is then dropped.
CondaLockDeserialize(raw) ==
    LET version == VersionDeserialize(raw.version)
    IN  IF version.kind = "Err" THEN version
        ELSE ReadOk(CondaLock(raw.metadata, raw.package))

\* The closure handed to sort_by: Ordering::then_with stops at the first
\* comparison that is not Equal.
KindOrder(a, b) ==
    IF a.kind = "conda" /\ b.kind = "conda" THEN CmpInt(a.build, b.build)
    ELSE IF a.kind = "pip" /\ b.kind = "pip" THEN "Equal"
    ELSE IF a.kind = "pip" THEN "Less"
    ELSE "Greater"

LockOrderBuildFirst(a, b) ==
    IF CmpInt(a.name, b.name) # "Equal" THEN CmpInt(a.name, b.name)
    ELSE IF KindOrder(a, b) # "Equal" THEN KindOrder(a, b)
    ELSE IF CmpInt(a.platform, b.platform) # "Equal" THEN CmpInt(a.platform, b.platform)
    ELSE CmpInt(a.version, b.version)

LockOrder(a, b) ==
    IF CmpInt(a.name, b.name) # "Equal" THEN CmpInt(a.name, b.name)
    ELSE IF CmpInt(a.platform, b.platform) # "Equal" THEN CmpInt(a.platform, b.platform)
    ELSE IF CmpInt(a.version, b.version) # "Equal" THEN CmpInt(a.version, b.version)
    ELSE KindOrder(a, b)

\* sorted_deps.sort_by: the insertion sort of a short slice, each element
\* inserted into the sorted slice to its left, before the elements it is Less
\* than.
RECURSIVE LockPosition(_, _, _)
LockPosition(sorted, x, j) ==
    IF j >= 1 /\ LockOrder(x, sorted[j]) = "Less" THEN LockPosition(sorted, x, j - 1)
    ELSE j

RECURSIVE SortedDeps(_, _)
SortedDeps(package, n) ==
    IF n = 0 THEN <<>>
    ELSE LET sorted == SortedDeps(package, n - 1)
             j == LockPosition(sorted, package[n], n - 1)
         IN  SubSeq(sorted, 1, j) \o <<package[n]>> \o SubSeq(sorted, j + 1, n - 1)

\* impl Serialize for CondaLock
CondaLockSerialize(self) ==
    Document(VersionDefault, self.metadata, SortedDeps(self.package, Len(self.package)))

\* The entries of the locks: two names, two platforms and two versions of the
\* first name; pip entries that differ in url only, conda entries of two
\* builds.
LockKeys == {<<1, 1, 1>>, <<1, 1, MaxVersion>>, <<1, 2, 1>>, <<2, 1, 1>>}
LockEntries ==
    {LockedDependency(k[1], k[2], k[3], "pip", 0, url) : k \in LockKeys, url \in {"u", "w"}}
    \cup {LockedDependency(k[1], k[2], k[3], "conda", build, "u") :
              k \in LockKeys, build \in {0, MaxBuild}}
LockLists ==
    {<<>>} \cup {<<x>> : x \in LockEntries} \cup {<<x, y>> : x \in LockEntries, y \in LockEntries}
    \cup {<<x, y, z>> : x \in LockEntries, y \in LockEntries, z \in LockEntries}
Metadatas == {"first", "second"}

LockInit ==
    /\ lock \in {CondaLock("first", package) : package \in LockLists}
    /\ doc = <<>>
    /\ read = <<>>
    /\ AlgIdle /\ DerIdle /\ OrdIdle /\ IxIdle /\ CmdIdle

\* The lock in memory is written out.
Serialize ==
    /\ doc' = <<CondaLockSerialize(lock)>>
    /\ read' = <<>>
    /\ UNCHANGED lock

\* A document comes from elsewhere: the packages of the lock in memory, as
\* they are, under any version and metadata.
Receive ==
    \E version \in 0..MaxDocVersion, metadata \in Metadatas :
        /\ doc' = <<Document(version, metadata, lock.package)>>
        /\ read' = <<>>
        /\ UNCHANGED lock

\* The document is read.
Deserialize ==
    /\ doc # <<>>
    /\ read = <<>>
    /\ read' = <<CondaLockDeserialize(doc[1])>>
    /\ UNCHANGED <<lock, doc>>

\* What was read replaces the lock in memory.
Load ==
    /\ read # <<>>
    /\ read[1].kind = "Ok"
    /\ lock' = read[1].value
    /\ UNCHANGED <<doc, read>>

LockNext ==
    (Serialize \/ Receive \/ Deserialize \/ Load)
    /\ UNCHANGED <<algVars, derVars, ordVars, ixVars, cmdVars>>

SpecLock == LockInit /\ [][LockNext]_vars

\* C11: reading a document fails, with the message that names its version
\* and 2, exactly when its version field is greater than 2; the versions 0,
\* 1 and 2 are accepted.
C11_VersionGuard ==
    read # <<>> =>
        /\ read[1].kind = "Err" <=> doc[1].version > 2
        /\ read[1].kind = "Err" => read[1].found = doc[1].version /\ read[1].supported = 2
        /\ doc[1].version \in 0..2 => read[1].kind = "Ok"

\* A document of version 3 was refused.
C11_Witness ==
    /\ read # <<>>
    /\ doc[1].version = 3
    /\ read[1].kind = "Err"

\* A document of version 2 with packages was accepted.
C11_WitnessAccepted ==
    /\ read # <<>>
    /\ doc[1].version = 2
    /\ read[1].kind = "Ok"
    /\ Len(read[1].value.package) = 3

\* The order of the lock file: b comes strictly before a.
StrictlyBefore(b, a) ==
    \/ b.name < a.name
    \/ b.name = a.name /\ b.platform < a.platform
    \/ b.name = a.name /\ b.platform = a.platform /\ b.version < a.version
    \/ /\ b.name = a.name /\ b.platform = a.platform /\ b.version = a.version
       /\ \/ b.kind = "conda" /\ a.kind = "conda" /\ b.build < a.build
          \/ b.kind = "pip" /\ a.kind = "conda"

\* emitted is input rearranged by a permutation that keeps the input order of
\* the entries that compare equal, and no entry of emitted comes strictly
\* before an earlier one.
StablySorted(input, emitted) ==
    /\ Len(emitted) = Len(input)
    /\ \A i \in 1..Len(emitted), j \in 1..Len(emitted) :
           i < j => ~StrictlyBefore(emitted[j], emitted[i])
    /\ \E f \in Permutations(1..Len(input)) :
           /\ \A i \in 1..Len(input) : emitted[i] = input[f[i]]
           /\ \A i \in 1..Len(input), j \in 1..Len(input) :
                  (i < j /\ ~StrictlyBefore(emitted[i], emitted[j])) => f[i] < f[j]

\* C12: serialize emits the packages of the lock stably sorted by name,
\* platform, version, then build between conda entries, pip before conda;
\* it leaves the lock in memory as it was and always emits version 2.
C12_SerializationOrder ==
    [][Serialize =>
          /\ StablySorted(lock.package, doc'[1].package)
          /\ lock' = lock
          /\ doc'[1].version = 2
          /\ doc'[1].metadata = lock.metadata]_vars

\* A lock out of order was written: two pip entries that differ in url only,
\* after a conda entry of the same name, platform and version.
C12_Witness ==
    /\ doc = <<CondaLockSerialize(lock)>>
    /\ Len(lock.package) = 3
    /\ lock.package[1].kind = "conda"
    /\ lock.package[2].kind = "pip" /\ lock.package[3].kind = "pip"
    /\ lock.package[2].url # lock.package[3].url
    /\ \A i \in 2..3 :
           /\ lock.package[i].name = lock.package[1].name
           /\ lock.package[i].platform = lock.package[1].platform
           /\ lock.package[i].version = lock.package[1].version

\* The package list is in the order serialize emits.
InSerializationOrder(package) ==
    \A i \in 1..Len(package), j \in 1..Len(package) :
        i < j => ~StrictlyBefore(package[j], package[i])

\* C13: a lock written and read back is accepted; it is the lock itself
\* (same metadata, same package sequence) when the lock's packages were in
\* serialization order, and for every lock writing it again gives the same
\* document.
C13_RoundTrip ==
    (doc = <<CondaLockSerialize(lock)>> /\ read # <<>>) =>
        /\ read[1].kind = "Ok"
        /\ InSerializationOrder(lock.package) => read[1].value = lock
        /\ CondaLockSerialize(read[1].value) = doc[1]

\* A lock of three different entries in serialization order was written and
\* read back.
C13_Witness ==
    /\ doc = <<CondaLockSerialize(lock)>>
    /\ read # <<>>
    /\ Len(lock.package) = 3
    /\ InSerializationOrder(lock.package)
    /\ StrictlyBefore(lock.package[1], lock.package[2])
    /\ StrictlyBefore(lock.package[2], lock.package[3])

\* A lock out of serialization order was written and read back: what was
\* read is not the lock, and writing it again gives the same document.
C13_WitnessUnsorted ==
    /\ doc = <<CondaLockSerialize(lock)>>
    /\ read # <<>>
    /\ read[1].kind = "Ok"
    /\ read[1].value # lock
    /\ ~InSerializationOrder(lock.package)

\* ----------------------------------------------------- the create command
\* A string MatchSpec::from_str refuses.
Malformed == <<"", 0, 0>>

\* Where the names stand in the order of strings.
NameRank(n) ==
    IF n = PkgV THEN 1 ELSE IF n = Root THEN 2 ELSE IF n = PkgA THEN 3
    ELSE IF n = PkgB THEN 4 ELSE 5

\* result.sort_by(|a, b| a.name.cmp(&b.name)): a stable insertion of each
\* record after the last record whose name is not greater.
RECURSIVE NamePosition(_, _, _)
NamePosition(sorted, x, j) ==
    IF j = 0 THEN 0
    ELSE IF NameRank(sorted[j].name) <= NameRank(x.name) THEN j
    ELSE NamePosition(sorted, x, j - 1)

RECURSIVE SortedByName(_, _)
SortedByName(records, n) ==
    IF n = 0 THEN <<>>
    ELSE LET sorted == SortedByName(records, n - 1)
             at == NamePosition(sorted, records[n], n - 1)
         IN  SubSeq(sorted, 1, at) \o <<records[n]>> \o SubSeq(sorted, at + 1, n - 1)

\* How a run of create ended: what it returned, the step that failed ("" for
\* none), and what it printed to standard error.
Exit(code, failed, printed) == [code |-> code, failed |-> failed, printed |-> printed]

FailedToSolve == <<"Failed to solve">>

\* The end of create: the match on the result of solve, then Ok(()).
Report(result) ==
    IF result.kind = "Err" THEN Exit("Ok", "solve", FailedToSolve)
    ELSE Exit("Ok", "", SortedByName(result.records, Len(result.records)))

\* create: the specs are parsed, the cache directory made, the channels
\* parsed and the repodata fetched, each returning its error with `?`; then
\* the Index is built, the detected virtual packages added and solve run.
create(specs, fault, fetched, virtual, order) ==
    IF \E i \in 1..Len(specs) : specs[i] = Malformed THEN Exit("Err", "parse", <<>>)
    ELSE IF fault = "cache_dir" THEN Exit("Err", "cache_dir", <<>>)
    ELSE IF fault = "channels" THEN Exit("Err", "channels", <<>>)
    ELSE IF fault = "fetch" THEN Exit("Err", "fetch", <<>>)
    ELSE Report(solve(Index(IF virtual
                            THEN MapPut(<<>>, PkgV,
                                        VirtualUniverse(PlainRecord(PkgV, MaxVersion)))
                            ELSE <<>>,
                            fetched),
                      "tail", order, specs))

Faults == {"", "cache_dir", "channels", "fetch"}

\* The repodata the channels hold.
CreateInit ==
    /\ repo_datas \in
           {<<RepoData(a, b)>> :
               a \in UpToTwo(ARecords(1, {<<>>}), ARecords(MaxVersion, {<<>>})),
               b \in UpToTwo(BRecords(1, {<<>>}), BRecords(MaxVersion, {<<>>}))}
    /\ package_variants_cache = <<>>
    /\ sortBy = "tail"
    /\ mapOrder \in {<<PkgA, PkgB, PkgV, PkgM, Root>>}
    /\ call = <<>>
    /\ ret = <<>>
    /\ created = <<>>
    /\ AlgIdle /\ DerIdle /\ OrdIdle /\ LockIdle

\* One run of the command; its Index lives and dies within the run.
Create ==
    \E specs \in ShortLists(SolveSpecStrs \cup {Malformed}), fault \in Faults,
       virtual \in BOOLEAN :
        /\ created = <<>>
        /\ created' = <<[specs |-> specs, virtual |-> virtual,
                         exit |-> create(specs, fault, repo_datas, virtual, mapOrder)]>>
        /\ UNCHANGED ixVars

CreateNext == Create /\ UNCHANGED <<algVars, derVars, ordVars, lockVars>>

SpecCreate == CreateInit /\ [][CreateNext]_vars

\* C14: create ends with failure whenever parsing the specs, fetching the
\* repodata or solving failed, and ends with success only after it printed
\* the records of the solution sorted by name.
C14_CreateExit ==
    created # <<>> =>
        LET exit == created[1].exit
        IN  /\ exit.failed \in {"parse", "fetch", "solve"} => exit.code = "Err"
            /\ exit.code = "Ok" =>
                   /\ exit.failed = ""
                   /\ \A i \in 1..Len(exit.printed), j \in 1..Len(exit.printed) :
                          i < j => NameRank(exit.printed[i].name) <= NameRank(exit.printed[j].name)

\* create ended with success after it printed two records out of the order
\* solve gave them in.
C14_WitnessSorted ==
    /\ created # <<>>
    /\ created[1].exit.code = "Ok"
    /\ created[1].exit.failed = ""
    /\ Len(created[1].exit.printed) = 3
    /\ created[1].exit.printed[1].name = PkgV

\* The solve failed and create ended with success.
C14_WitnessSolveFailed ==
    /\ created # <<>>
    /\ created[1].exit.failed = "solve"
    /\ created[1].exit.code = "Ok"

\* ------------------------------------------------- one Index, many calls
\* What add_package returns, and the panic it ends with.
VariantId(version_set, index) ==
    [kind |-> "VariantId", version_set |-> version_set, index |-> index]
Panic(message, name) == [kind |-> "Panic", message |-> message, name |-> name]

\* An insert that does not care about a previous universe, as the one solve
\* makes for the root.
add_package_replacing(cache, package) ==
    [cache |-> MapPut(cache, package.name, VirtualUniverse(package)),
     ret |-> VariantId(VirtualUniverse(package), 0)]

\* Index::add_package: the universe is inserted, and a previous universe of
\* the name is a panic.
add_package(cache, package) ==
    [cache |-> MapPut(cache, package.name, VirtualUniverse(package)),
     ret |-> IF package.name \in DOMAIN cache
             THEN Panic("duplicate package entry", cache[package.name].name)
             ELSE VariantId(VirtualUniverse(package), 0)]

Panicked == ret # <<>> /\ ret[1].kind = "Panic"

\* The packages added: the virtual package and the package no repodata has.
AddedPackages == {PlainRecord(PkgV, 1), PlainRecord(PkgV, MaxVersion), PlainRecord(PkgM, 1)}

\* The specs solved for.
IndexSpecStrs == {<<>>, <<<<PkgA, 1, MaxVersion>>>>, <<<<PkgV, 1, MaxVersion>>>>,
                  <<<<PkgM, 1, MaxVersion>>>>}

IndexInit ==
    /\ repo_datas \in
           {<<RepoData(a, b)>> :
               a \in UpToTwo(ARecords(1, {<<>>}), {}),
               b \in UpToTwo(BRecords(1, {<<>>}), {})}
    /\ package_variants_cache = <<>>
    /\ sortBy = "tail"
    /\ mapOrder \in {<<PkgA, PkgB, PkgV, PkgM, Root>>}
    /\ call = <<>>
    /\ ret = <<>>
    /\ AlgIdle /\ DerIdle /\ OrdIdle /\ LockIdle /\ CmdIdle

\* Index::add_package, on an Index whatever was called on it before.
IndexAddPackage ==
    \E package \in AddedPackages :
        /\ ~Panicked
        /\ call' = <<[op |-> "add_package", package |-> package]>>
        /\ ret' = <<add_package(package_variants_cache, package).ret>>
        /\ package_variants_cache' = add_package(package_variants_cache, package).cache
        /\ UNCHANGED <<repo_datas, sortBy, mapOrder>>

\* Index::solve, on an Index whatever was called on it before.
IndexSolve ==
    \E specs \in IndexSpecStrs :
        /\ ~Panicked
        /\ call' = <<[op |-> "solve", specs |-> specs]>>
        /\ ret' = <<solve(TheIndex, sortBy, mapOrder, specs)>>
        /\ package_variants_cache' =
               CacheWith(Index(CacheWithRoot(package_variants_cache, specs), repo_datas),
                         Resolve(TheIndex, sortBy, mapOrder, specs).looked)
        /\ UNCHANGED <<repo_datas, sortBy, mapOrder>>

IndexNext ==
    (IndexAddPackage \/ IndexSolve)
    /\ UNCHANGED <<algVars, derVars, ordVars, lockVars, cmdVars>>

SpecIndex == IndexInit /\ [][IndexNext]_vars

\* C15: whatever was called on the Index before, add_package for a name that
\* has a universe in the cache panics with "duplicate package entry", and
\* for a name that has none it registers a universe of the one variant and
\* returns the variant of index 0 of it.
C15_DuplicatePackage ==
    [][(call' # <<>> /\ call'[1].op = "add_package") =>
          LET package == call'[1].package
          IN  IF package.name \in DOMAIN package_variants_cache
              THEN /\ ret'[1].kind = "Panic"
                   /\ ret'[1].message = "duplicate package entry"
              ELSE /\ ret'[1].kind = "VariantId"
                   /\ ret'[1].index = 0
                   /\ ret'[1].version_set.variants = <<package>>
                   /\ DOMAIN package_variants_cache' =
                          (DOMAIN package_variants_cache) \cup {package.name}
                   /\ package_variants_cache'[package.name] = ret'[1].version_set
                   /\ \A n \in DOMAIN package_variants_cache :
                          package_variants_cache'[n] = package_variants_cache[n]]_vars

\* add_package panicked for the virtual package after a solve.
C15_Witness ==
    /\ call # <<>>
    /\ call[1].op = "add_package"
    /\ call[1].package.name = PkgV
    /\ ret[1].kind = "Panic"
    /\ Root \in DOMAIN package_variants_cache

\* add_package registered the virtual package after a solve.
C15_WitnessRegistered ==
    /\ call # <<>>
    /\ call[1].op = "add_package"
    /\ call[1].package.name = PkgV
    /\ ret[1].kind = "VariantId"
    /\ Root \in DOMAIN package_variants_cache
    /\ PkgA \in DOMAIN package_variants_cache
    /\ package_variants_cache[PkgV].variants = <<call[1].package>>

\* C18: when a solve ends the universes it cached are discarded: the universe
\* cache holds no name it did not hold when the solve began.
C18_CacheDiscarded ==
    [][(call' # <<>> /\ call'[1].op = "solve") =>
          DOMAIN package_variants_cache' \subseteq DOMAIN package_variants_cache]_vars

\* ------------------------------------------------------ choosing a variant
\* The pair choose_package_version returned a variant of: the pair of the
\* returned package, which potential_packages holds once.
SelectedPair ==
    call[1][CHOOSE i \in 1..Len(call[1]) : call[1][i].package = ret[1].package]

\* by_order of the universe of the selected pair.
SelectedOrder ==
    variants_order(TheIndex, package_variants(TheIndex, SelectedPair.package), sortBy)

\* C16: the variant choose_package_version returns is the first index of
\* by_order of the selected pair's universe that the pair's candidate set
\* contains: it is a member of the set and no member precedes it in by_order.
C16_FirstInOrder ==
    (call # <<>> /\ ret[1].kind = "Ok") =>
        \E k \in 1..Len(SelectedOrder) :
            /\ SelectedOrder[k] = ret[1].index
            /\ contains_variant_index(SelectedPair.range, ret[1].index)
            /\ \A j \in 1..(k - 1) :
                   ~contains_variant_index(SelectedPair.range, SelectedOrder[j])

\* The returned variant is neither the first of by_order nor the last member
\* of the set in by_order, and by_order is not the order of the indices.
C16_Witness ==
    /\ call # <<>>
    /\ ret[1].kind = "Ok"
    /\ SelectedOrder[1] # ret[1].index
    /\ SelectedOrder[1] # 0
    /\ \E j \in 1..Len(SelectedOrder) :
           /\ contains_variant_index(SelectedPair.range, SelectedOrder[j])
           /\ SelectedOrder[j] # ret[1].index

\* ------------------------------------------------- the highest version
\* The records of PkgB: of every version, with and without track_features.
TrackedRecords ==
    {Record(PkgB, v, 0, tr, 0, <<>>, <<>>) : v \in Versions, tr \in BOOLEAN}

HighestSpecs ==
    {MatchSpec(PkgB, iv[1], iv[2]) : iv \in {p \in Versions \X Versions : p[1] <= p[2]}}
    \cup {MatchSpec(PkgM, 1, MaxVersion)}

HighestInit ==
    /\ repo_datas \in
           {<<RepoData(<<>>, b)>> : b \in UNION {[1..n -> TrackedRecords] : n \in 0..MaxVariants}}
    /\ package_variants_cache = <<>>
    /\ sortBy = "tail"
    /\ mapOrder = <<>>
    /\ call = <<>>
    /\ ret = <<>>
    /\ AlgIdle /\ DerIdle /\ OrdIdle /\ LockIdle /\ CmdIdle

\* Index::find_highest_version, which asks package_variants for the universe
\* of the name of the spec.
FindHighestVersion ==
    \E match_spec \in HighestSpecs :
        /\ call' = <<match_spec>>
        /\ ret' = <<find_highest_version(TheIndex, match_spec)>>
        /\ package_variants_cache' = CacheWith(TheIndex, {match_spec.name})
        /\ UNCHANGED <<repo_datas, sortBy, mapOrder>>

HighestNext ==
    FindHighestVersion /\ UNCHANGED <<algVars, derVars, ordVars, lockVars, cmdVars>>

SpecHighest == HighestInit /\ [][HighestNext]_vars

\* The records of the universe of the spec that was asked for which match it.
MatchingRecords ==
    LET variants == package_variants(TheIndex, call[1].name).variants
    IN  {variants[i] : i \in {k \in 1..Len(variants) : Matches(call[1], variants[k])}}

\* C17: find_highest_version returns nothing when no record matches the
\* spec, and otherwise the highest version of the matching records and
\* whether every one of them has track_features.
C17_HighestVersion ==
    call # <<>> =>
        IF MatchingRecords = {} THEN ret[1] = <<>>
        ELSE /\ ret[1] # <<>>
             /\ \E r \in MatchingRecords : r.version = ret[1][1].version
             /\ \A r \in MatchingRecords : r.version <= ret[1][1].version
             /\ ret[1][1].tracked <=> \A r \in MatchingRecords : r.tracked

\* Two matching records, both with track_features, and the answer says that
\* not all have.
C17_WitnessAllTracked ==
    /\ call # <<>>
    /\ Len(repo_datas[1][PkgB]) = 2
    /\ \A i \in 1..2 : repo_datas[1][PkgB][i].tracked /\ Matches(call[1], repo_datas[1][PkgB][i])
    /\ ret[1] # <<>>
    /\ ~ret[1][1].tracked

====
